---- MODULE Spec2Model ----
(***************************************************************************)
(* Job-lifecycle client of the modernization dashboard.                    *)
(*                                                                         *)
(* ModernizationApp (parent) owns modernizationResults and isProcessing    *)
(* and hands handleFileUpload / handleProcessResults to                    *)
(* ModernizationDashboard (child), which owns jobId, pollingInterval and   *)
(* error, runs the polling effect and performs the upload.                 *)
(*                                                                         *)
(* One action per handler or callback step.  A step ends at each await of  *)
(* the source (the suspension points of the single event loop); the        *)
(* re-render and the effect re-run that a handler's state updates cause    *)
(* are part of the handler's action.                                       *)
(***************************************************************************)
EXTENDS Integers, FiniteSets, Sequences, Bags, TLC

\* ------------------------------------------------------------------ bounds
MaxJobs   == 2   \* job identifiers 1..MaxJobs
MaxEvents == 5   \* user events and interval firings in one run
MaxColumns == 3  \* column declarations before a table's FOREIGN KEY clause
MaxCalls  == 2   \* lines of a generated route text
MaxFragments == 3  \* comma-separated fragments of a generated table body

Jobs == 1..MaxJobs

\* ------------------------------------------------------------------ values
NoJob   == 0            \* jobId = null
NoTimer == 0            \* no interval handle
NoError == "<null>"     \* error = null, or an absent error field
NoModel == [via |-> "none", of |-> 0]     \* modernizationResults = null

ConnectionError == "Connection error. Please check if the server is running."
GenericFailure  == "Processing failed. Please try again."
DiskFull        == "disk full"

Statuses == {"queued", "running", "completed", "failed"}

\* The error field a failed job's status response may carry.
ServerErrors == {NoError, DiskFull}

\* The ways the submission call can end.
UploadOutcomes == {"ok", "throws", "notOk", "rejected"}

VARIABLES
    mounted,               \* the dashboard component is mounted
    modernizationResults,  \* parent state: the visible model, or NoModel
    isProcessing,          \* parent state
    jobId,                 \* child state
    pollingInterval,       \* child state: interval handle, or NoTimer
    error,                 \* child state: message, or NoError
    timers,                \* live intervals: set of [id, job] (job: closure's jobId)
    effectInterval,        \* interval the pending effect cleanup will clear
    nextTimer,             \* next interval handle
    ticks,                 \* interval callbacks in flight: bag of [interval, job, pc]
    uploads,               \* submissions: sequence of "pending" | "ok" | "failed"
    jobStatus,             \* server: job -> the status it last reported
    jobError,              \* server: job -> error field of its failed responses
    statusFetches,         \* history: job -> number of GET /status/<job> issued
    resultFetches,         \* history: job -> number of GET /result/<job> issued
    resultDelivered,       \* history: job -> a tick has handed the job's result over
    transportFailed,       \* history: job -> a tick's network call has thrown
    cancelled,             \* history: handles whose effect cleanup has run
    events,                \* history: user events and interval firings so far
    dbSchema,              \* payload: modernizationAssets.dbSchema ("" when absent)
    restApi,               \* payload: modernizationAssets.restApi ("" when absent)
    extracted,             \* schema view: what extractTables() returned for the payload
    drawnLines,            \* schema view: the relationship lines drawn, [from, rel, to]
    handedOver,            \* the arguments onProcessFile was called with for the payload
    openApi                \* API view: the endpoints shown and the paths of the document built

clientVars == <<mounted, modernizationResults, isProcessing, jobId, pollingInterval,
          error, timers, effectInterval, nextTimer, ticks, uploads, jobStatus,
          jobError, statusFetches, resultFetches, resultDelivered,
          transportFailed, cancelled, events>>

\* The text pipeline's state: a result payload and what was derived from it.
parserVars == <<dbSchema, restApi, extracted, drawnLines, handedOver, openApi>>

vars == <<clientVars, parserVars>>

serverVars  == <<jobStatus, jobError>>
historyVars == <<statusFetches, resultFetches, resultDelivered,
                 transportFailed, cancelled>>

\* An interval callback suspended at the await named by pc.
Tick(interval, job, pc) == [interval |-> interval, job |-> job, pc |-> pc]

\* Number of callbacks of job j suspended at pc in the bag tks.
InFlight(tks, j, pc) ==
    LET at == {tk \in BagToSet(tks) : tk.job = j /\ tk.pc = pc}
        RECURSIVE Sum(_)
        Sum(S) == IF S = {} THEN 0
                  ELSE LET tk == CHOOSE x \in S : TRUE
                       IN  CopiesIn(tk, tks) + Sum(S \ {tk})
    IN  Sum(at)

\* A user event or an interval firing: counted against MaxEvents.
Event == events < MaxEvents /\ events' = events + 1

\* ------------------------------------------------------------ pure helpers

\* clearInterval(handle)
ClearIntervalIgnored(tm, handle) == tm
ClearInterval(tm, handle) == {t \in tm : t.id # handle}

\* The effect's guard: jobId && !modernizationResults
EffectShouldPoll(jid, res) == jid # NoJob /\ res = NoModel

\* The effect's cleanup, () => clearInterval(interval): interval is the handle
\* captured by the effect run being cleaned up.
EffectCleanupStale(tm, cur) == ClearInterval(tm, pollingInterval)
EffectCleanupMissing(tm, cur) == tm
EffectCleanup(tm, cur) == ClearInterval(tm, cur)

\* The branch the interval callback takes on a status response.
StatusBranchNotFailed(status) ==
    IF status = "failed" THEN "failed" ELSE "completed"
StatusBranch(status) ==
    IF status = "completed" THEN "completed"
    ELSE IF status = "failed" THEN "failed"
    ELSE "other"

\* status.error || 'Processing failed. Please try again.'
FailureMessage(err) == IF err = NoError THEN GenericFailure ELSE err

\* handleFileUpload: does the try block throw for this outcome of the call?
UploadThrowsUnchecked(outcome) == outcome \in {"throws", "notOk"}
UploadThrows(outcome) == outcome # "ok"

\* error.message of what the try block throws.
UploadErrorMessage(outcome) ==
    CASE outcome = "throws"   -> "Failed to fetch"
      [] outcome = "notOk"    -> "Server error: 500 - Internal Server Error"
      [] outcome = "rejected" -> "Modernization failed"
      [] OTHER                -> ""

\* `Upload failed: ${error.message}`
UploadFailed(msg) == "Upload failed: " \o msg

\* The models the three delivery paths hand to the parent.
UploadModel(u) == [via |-> "upload", of |-> u]
PollModel(j)   == [via |-> "poll", of |-> j]
SampleModel    == [via |-> "sample", of |-> 0]

\* A state update of a component that is no longer mounted is dropped.
SetState(cur, new) == IF mounted THEN new ELSE cur

\* ------------------------------------------------------------ text helpers
\* A text is a string; a character is a string of length 1.
Char(s, i) == IF i \in 1..Len(s) THEN SubSeq(s, i, i) ELSE ""

\* s.slice(i - 1): the text from its i-th character on.
From(s, i) == SubSeq(s, i, Len(s))

LowerLetters == "abcdefghijklmnopqrstuvwxyz"
UpperLetters == "ABCDEFGHIJKLMNOPQRSTUVWXYZ"
Digits       == "0123456789"

Chars(s) == {Char(s, i) : i \in 1..Len(s)}

\* The regular-expression classes \w and \s.
WordChars  == Chars(LowerLetters) \cup Chars(UpperLetters) \cup Chars(Digits) \cup {"_"}
SpaceChars == {" ", "\t", "\n", "\r"}

\* String.prototype.toUpperCase
UpperOf(c) ==
    IF c \in Chars(LowerLetters)
    THEN Char(UpperLetters, CHOOSE i \in 1..Len(LowerLetters) : Char(LowerLetters, i) = c)
    ELSE c

RECURSIVE toUpperCase(_)
toUpperCase(s) ==
    IF Len(s) <= 1 THEN UpperOf(s)
    ELSE LET mid == Len(s) \div 2
         IN  toUpperCase(SubSeq(s, 1, mid)) \o toUpperCase(From(s, mid + 1))

\* The least element of a non-empty set of positions.
First(S) == CHOOSE k \in S : \A m \in S : k <= m

\* Index of the first occurrence of sub in s at or after i, or 0.
IndexOf(s, sub, i) ==
    LET hits == {k \in i..(Len(s) - Len(sub) + 1) :
                    SubSeq(s, k, k + Len(sub) - 1) = sub}
    IN  IF hits = {} THEN 0 ELSE First(hits)

\* String.prototype.toLowerCase
LowerOf(c) ==
    IF c \in Chars(UpperLetters)
    THEN Char(LowerLetters, CHOOSE i \in 1..Len(UpperLetters) : Char(UpperLetters, i) = c)
    ELSE c

RECURSIVE toLowerCase(_)
toLowerCase(s) ==
    IF Len(s) <= 1 THEN LowerOf(s)
    ELSE LET mid == Len(s) \div 2
         IN  toLowerCase(SubSeq(s, 1, mid)) \o toLowerCase(From(s, mid + 1))

\* String.prototype.includes
startsWith(s, sub) == IndexOf(s, sub, 1) = 1
includes(s, sub) == IndexOf(s, sub, 1) # 0

\* A literal of a pattern under the i flag: lit (in upper case) stands at i.
LitAt(s, i, lit) ==
    /\ i + Len(lit) - 1 <= Len(s)
    /\ UpperOf(Char(s, i)) = Char(lit, 1)
    /\ toUpperCase(SubSeq(s, i, i + Len(lit) - 1)) = lit

\* A greedy run of a character class (\w+, \s*, ...) starting at i: the index
\* of the first character at or after i outside cls.
RunEnd(s, i, cls) ==
    First({k \in i..(Len(s) + 1) : Char(s, k) \notin cls} \cup {Len(s) + 1})

\* A greedy run of a negated class ([^)]+, [^'"]+) starting at i.
RunEndNot(s, i, stops) ==
    First({k \in i..Len(s) : Char(s, k) \in stops} \cup {Len(s) + 1})

\* String.prototype.trim
trim(s) ==
    LET inked == {k \in 1..Len(s) : Char(s, k) \notin SpaceChars}
    IN  IF inked = {} THEN ""
        ELSE SubSeq(s, First(inked), CHOOSE k \in inked : \A m \in inked : m <= k)

\* s.split(sep) for a one-character separator.
RECURSIVE split(_, _)
split(s, sep) ==
    LET k == IndexOf(s, sep, 1)
    IN  IF k = 0 THEN <<s>>
        ELSE <<SubSeq(s, 1, k - 1)>> \o split(From(s, k + 1), sep)

\* s.split(/\s+/)
RECURSIVE splitSpaces(_)
splitSpaces(s) ==
    LET k == RunEndNot(s, 1, SpaceChars)
    IN  IF k > Len(s) THEN <<s>>
        ELSE <<SubSeq(s, 1, k - 1)>> \o splitSpaces(From(s, RunEnd(s, k, SpaceChars)))

\* ------------------------------------------------- the schema view's parser
\* One fragment of columnsSection.split(','), as the forEach body of
\* parseColumns treats it: the column it pushes, or nothing.
columnOfLineCaseSensitive(line) ==
    LET trimmed == trim(line)
        upper   == trimmed
        parts   == splitSpaces(trimmed)
    IN  IF /\ trimmed # ""
           /\ ~includes(upper, "CONSTRAINT")
           /\ ~includes(upper, "FOREIGN KEY")
           /\ Len(parts) >= 2
        THEN <<[name       |-> parts[1],
                type       |-> parts[2],
                isPrimary  |-> includes(upper, "PRIMARY KEY"),
                isNotNull  |-> includes(upper, "NOT NULL"),
                isUnique   |-> includes(upper, "UNIQUE"),
                hasDefault |-> includes(upper, "DEFAULT")]>>
        ELSE <<>>
columnOfLine(line) ==
    LET trimmed == trim(line)
        upper   == toUpperCase(trimmed)
        parts   == splitSpaces(trimmed)
    IN  IF /\ trimmed # ""
           /\ ~includes(upper, "CONSTRAINT")
           /\ ~includes(upper, "FOREIGN KEY")
           /\ Len(parts) >= 2
        THEN <<[name       |-> parts[1],
                type       |-> parts[2],
                isPrimary  |-> includes(upper, "PRIMARY KEY"),
                isNotNull  |-> includes(upper, "NOT NULL"),
                isUnique   |-> includes(upper, "UNIQUE"),
                hasDefault |-> includes(upper, "DEFAULT")]>>
        ELSE <<>>

RECURSIVE columnsOfLines(_)
columnsOfLines(lines) ==
    IF lines = <<>> THEN <<>>
    ELSE columnOfLine(Head(lines)) \o columnsOfLines(Tail(lines))

parseColumns(columnsSection) == columnsOfLines(split(columnsSection, ","))

\* One attempt of
\*   /FOREIGN\s+KEY\s*\(([^)]+)\)\s+REFERENCES\s+(\w+)\s*\(([^)]+)\)/gi
\* at position i of s.
MatchForeignKey(s, i) ==
    LET a == i + Len("FOREIGN")
        b == RunEnd(s, a, SpaceChars)
        c == b + Len("KEY")
        d == RunEnd(s, c, SpaceChars)
        e == RunEndNot(s, d + 1, {")"})
        f == RunEnd(s, e + 1, SpaceChars)
        g == f + Len("REFERENCES")
        h == RunEnd(s, g, SpaceChars)
        w == RunEnd(s, h, WordChars)
        x == RunEnd(s, w, SpaceChars)
        y == RunEndNot(s, x + 1, {")"})
    IN  IF /\ LitAt(s, i, "FOREIGN") /\ b > a
           /\ LitAt(s, b, "KEY")
           /\ Char(s, d) = "(" /\ e > d + 1 /\ Char(s, e) = ")"
           /\ f > e + 1
           /\ LitAt(s, f, "REFERENCES") /\ h > g
           /\ w > h
           /\ Char(s, x) = "(" /\ y > x + 1 /\ Char(s, y) = ")"
        THEN [ok         |-> TRUE,
              end        |-> y + 1,
              fromColumn |-> trim(SubSeq(s, d + 1, e - 1)),
              toTable    |-> SubSeq(s, h, w - 1),
              toColumn   |-> trim(SubSeq(s, x + 1, y - 1))]
        ELSE [ok |-> FALSE]

\* The exec loop of findRelationships from scan position i (lastIndex).
RECURSIVE findRelationshipsFrom(_, _)
findRelationshipsFrom(s, i) ==
    LET at == {k \in i..Len(s) : MatchForeignKey(s, k).ok}
        m  == MatchForeignKey(s, First(at))
    IN  IF at = {} THEN <<>>
        ELSE <<[fromColumn |-> m.fromColumn,
                toTable    |-> m.toTable,
                toColumn   |-> m.toColumn]>> \o findRelationshipsFrom(s, m.end)

\* The regular expression is created by the call, so the scan starts at 0.
findRelationshipsSkipped(columnsSection) == <<>>
findRelationships(columnsSection) == findRelationshipsFrom(columnsSection, 1)

\* One attempt of /CREATE\s+TABLE\s+(\w+)\s*\(([\s\S]*?)\);/gi at position i.
MatchCreateTable(s, i) ==
    LET a == i + Len("CREATE")
        b == RunEnd(s, a, SpaceChars)
        c == b + Len("TABLE")
        d == RunEnd(s, c, SpaceChars)
        e == RunEnd(s, d, WordChars)
        f == RunEnd(s, e, SpaceChars)
        g == IndexOf(s, ");", f + 1)
    IN  IF /\ LitAt(s, i, "CREATE") /\ b > a
           /\ LitAt(s, b, "TABLE") /\ d > c
           /\ e > d
           /\ Char(s, f) = "("
           /\ g # 0
        THEN [ok   |-> TRUE,
              end  |-> g + 2,
              name |-> SubSeq(s, d, e - 1),
              body |-> SubSeq(s, f + 1, g - 1)]
        ELSE [ok |-> FALSE]

\* The exec loop of parseSQLTables from scan position i.
RECURSIVE parseSQLTablesFrom(_, _)
parseSQLTablesFrom(sql, i) ==
    LET at == {k \in i..Len(sql) : MatchCreateTable(sql, k).ok}
        m  == MatchCreateTable(sql, First(at))
    IN  IF at = {} THEN <<>>
        ELSE <<[name          |-> m.name,
                columns       |-> parseColumns(m.body),
                relationships |-> findRelationships(m.body)]>>
             \o parseSQLTablesFrom(sql, m.end)

parseSQLTables(sql) == parseSQLTablesFrom(sql, 1)

\* tables.findIndex(t => t.name === name), counting from 1; 0 for -1.
findIndex(ts, name) ==
    LET hits == {k \in DOMAIN ts : ts[k].name = name}
    IN  IF hits = {} THEN 0 ELSE First(hits)

\* The lines the schema view draws: one for every relationship of every
\* table whose toTable is found among the tables, from the table to the
\* table found.
relationshipLines(ts) ==
    LET all == UNION {{[from |-> i, rel |-> r,
                        to   |-> findIndex(ts, ts[i].relationships[r].toTable)] :
                          r \in DOMAIN ts[i].relationships} : i \in DOMAIN ts}
    IN  {l \in all : l.to # 0}

\* extractTables of the schema view when it is given no schemaData.
extractTables(sqlData) == IF sqlData # "" THEN parseSQLTables(sqlData) ELSE <<>>

\* ------------------------------------------ the upload handler's parsers
\* One attempt of /(\w+)\s+([\w\(\)]+)(\s+PRIMARY KEY)?(\s+NOT NULL)?/i at
\* position i of line.
MatchColumn(line, i) ==
    LET e  == RunEnd(line, i, WordChars)
        f  == RunEnd(line, e, SpaceChars)
        g  == RunEnd(line, f, WordChars \cup {"(", ")"})
        h  == RunEnd(line, g, SpaceChars)
        g3 == h > g /\ LitAt(line, h, "PRIMARY KEY")
        k  == IF g3 THEN h + Len("PRIMARY KEY") ELSE g
        l  == RunEnd(line, k, SpaceChars)
        g4 == l > k /\ LitAt(line, l, "NOT NULL")
    IN  IF e > i /\ f > e /\ g > f
        THEN [ok |-> TRUE,
              column |-> [name      |-> SubSeq(line, i, e - 1),
                          type      |-> SubSeq(line, f, g - 1),
                          isPrimary |-> g3,
                          isNotNull |-> g4]]
        ELSE [ok |-> FALSE]

\* line.match(...): the leftmost match; the column pushed for it, or nothing
\* when there is none.
schemaColumnOfLine(line) ==
    LET at == {k \in 1..Len(line) : MatchColumn(line, k).ok}
    IN  IF at = {} THEN <<>> ELSE <<MatchColumn(line, First(at)).column>>

\* columnsStr.split(',').map(line => line.trim()) and the forEach over it.
RECURSIVE schemaColumnsOfLines(_)
schemaColumnsOfLines(lines) ==
    IF lines = <<>> THEN <<>>
    ELSE schemaColumnOfLine(trim(Head(lines)))
         \o schemaColumnsOfLines(Tail(lines))

\* One attempt of /CREATE TABLE (\w+)\s*\(([\s\S]*?)\);/gi at position i.
MatchTable(s, i) ==
    LET d == i + Len("CREATE TABLE ")
        e == RunEnd(s, d, WordChars)
        f == RunEnd(s, e, SpaceChars)
        g == IndexOf(s, ");", f + 1)
    IN  IF /\ LitAt(s, i, "CREATE TABLE ")
           /\ e > d
           /\ Char(s, f) = "("
           /\ g # 0
        THEN [ok   |-> TRUE,
              end  |-> g + 2,
              name |-> SubSeq(s, d, e - 1),
              body |-> SubSeq(s, f + 1, g - 1)]
        ELSE [ok |-> FALSE]

\* The exec loop of parseSchemaFromSQL from scan position i.
RECURSIVE parseSchemaFrom(_, _)
parseSchemaFrom(sqlString, i) ==
    LET at == {k \in i..Len(sqlString) : MatchTable(sqlString, k).ok}
        m  == MatchTable(sqlString, First(at))
    IN  IF at = {} THEN <<>>
        ELSE <<[name          |-> m.name,
                columns       |-> schemaColumnsOfLines(split(m.body, ",")),
                relationships |-> <<>>]>>
             \o parseSchemaFrom(sqlString, m.end)

\* if (!sqlString) return []: an absent text and the empty text are both "".
parseSchemaFromSQL(sqlString) ==
    IF sqlString = "" THEN <<>> ELSE parseSchemaFrom(sqlString, 1)

\* The methods of the route pattern's alternation, in its order.
RouteMethods == <<"GET", "POST", "PUT", "DELETE">>

Quotes == {"'", "\""}

\* One attempt of /app\.(get|post|put|delete)\s*\(\s*['"]([^'"]+)['"]/gi at
\* position i of s.
MatchRoute(s, i) ==
    LET a    == i + Len("APP.")
        alts == {n \in DOMAIN RouteMethods : LitAt(s, a, RouteMethods[n])}
        b    == a + Len(RouteMethods[First(alts)])
        c    == RunEnd(s, b, SpaceChars)
        d    == RunEnd(s, c + 1, SpaceChars)
        e    == RunEndNot(s, d + 1, Quotes)
    IN  IF /\ LitAt(s, i, "APP.")
           /\ alts # {}
           /\ Char(s, c) = "("
           /\ Char(s, d) \in Quotes
           /\ e > d + 1 /\ Char(s, e) \in Quotes
        THEN [ok     |-> TRUE,
              end    |-> e + 1,
              method |-> SubSeq(s, a, b - 1),
              path   |-> SubSeq(s, d + 1, e - 1)]
        ELSE [ok |-> FALSE]

\* The endpoint pushed for one match of the route pattern.
EndpointOfAsWritten(m) ==
    [method      |-> m.method,
     path        |-> m.path,
     description |-> m.method \o " endpoint for " \o m.path,
     parameters  |-> <<>>,
     response    |-> "JSON response"]
EndpointOf(m) ==
    [method      |-> toUpperCase(m.method),
     path        |-> m.path,
     description |-> toUpperCase(m.method) \o " endpoint for " \o m.path,
     parameters  |-> <<>>,
     response    |-> "JSON response"]

\* The exec loop of parseAPIEndpoints from scan position i.
RECURSIVE endpointsFrom(_, _)
endpointsFrom(apiCode, i) ==
    LET at == {k \in i..Len(apiCode) : MatchRoute(apiCode, k).ok}
        m  == MatchRoute(apiCode, First(at))
    IN  IF at = {} THEN <<>>
        ELSE <<EndpointOf(m)>> \o endpointsFrom(apiCode, m.end)

\* The default endpoints returned when the loop pushed nothing.
DefaultEndpoints ==
    << [method |-> "GET", path |-> "/api/data", description |-> "Get all records",
        parameters |-> <<>>, response |-> "Array of records"],
       [method |-> "GET", path |-> "/api/data/:id", description |-> "Get record by ID",
        parameters |-> <<"id">>, response |-> "Single record"],
       [method |-> "POST", path |-> "/api/data", description |-> "Create new record",
        parameters |-> <<>>, response |-> "Created record"] >>

\* if (!apiCode) return []: an absent text and the empty text are both "".
parseAPIEndpoints(apiCode) ==
    IF apiCode = "" THEN <<>>
    ELSE LET endpoints == endpointsFrom(apiCode, 1)
         IN  IF Len(endpoints) = 0 THEN DefaultEndpoints ELSE endpoints

\* ------------------------------------------------------------ the payload
\* The body of a successful submission response.
SubmissionResponse(sql, api) ==
    [success |-> TRUE,
     modernizationAssets |-> [dbSchema |-> sql, restApi |-> api]]

\* The result field of a result response: it wraps the modernizationAssets
\* of the submission response.
ResultPayload(sql, api) ==
    [modernizationAssets |-> [dbSchema |-> sql, restApi |-> api]]

\* transformedData of handleFileUpload: the parts derived from the two texts,
\* and the raw response.
transformedData(result) ==
    [schema    |-> [tables |-> parseSchemaFromSQL(result.modernizationAssets.dbSchema)],
     apiDesign |-> [endpoints |-> parseAPIEndpoints(result.modernizationAssets.restApi)],
     rawData   |-> result]

\* -------------------------------------------------------------------- Init
ClientInit ==
    /\ mounted = TRUE
    /\ modernizationResults = NoModel
    /\ isProcessing = FALSE
    /\ jobId = NoJob
    /\ pollingInterval = NoTimer
    /\ error = NoError
    /\ timers = {}
    /\ effectInterval = NoTimer
    /\ nextTimer = 1
    /\ ticks = EmptyBag
    /\ uploads = <<>>
    /\ jobStatus = [j \in Jobs |-> "queued"]
    /\ jobError = [j \in Jobs |-> NoError]
    /\ statusFetches = [j \in Jobs |-> 0]
    /\ resultFetches = [j \in Jobs |-> 0]
    /\ resultDelivered = [j \in Jobs |-> FALSE]
    /\ transportFailed = [j \in Jobs |-> FALSE]
    /\ cancelled = {}
    /\ events = 0

\* No payload has been received yet.
ParserIdle ==
    /\ dbSchema = ""
    /\ restApi = ""
    /\ extracted = <<>>
    /\ drawnLines = {}
    /\ handedOver = <<>>
    /\ openApi = <<>>

Init == ClientInit /\ ParserIdle

\* ------------------------------------------------------- the polling effect
\* useEffect(..., [jobId, modernizationResults, onProcessFile]) re-run after a
\* render in which a dependency changed: the previous run's cleanup, then the
\* body.  tm and pi are timers and pollingInterval as the handler that caused
\* the render left them.
RerunEffect(jid, res, tm, pi) ==
    LET cleaned == IF effectInterval # NoTimer
                   THEN EffectCleanup(tm, effectInterval) ELSE tm
    IN  /\ cancelled' = IF effectInterval # NoTimer
                        THEN cancelled \cup {effectInterval} ELSE cancelled
        /\ IF EffectShouldPoll(jid, res)
           THEN /\ timers' = cleaned \cup {[id |-> nextTimer, job |-> jid]}
                /\ effectInterval' = nextTimer
                /\ pollingInterval' = nextTimer
                /\ nextTimer' = nextTimer + 1
           ELSE /\ timers' = cleaned
                /\ effectInterval' = NoTimer
                /\ pollingInterval' = pi
                /\ nextTimer' = nextTimer

\* ----------------------------------------------------------------- actions

\* setJobId(j): the job identifier of a submission is recorded.
SetJobId(j) ==
    /\ UNCHANGED parserVars
    /\ Event
    /\ mounted
    /\ j # jobId
    /\ jobId' = j
    /\ RerunEffect(j, modernizationResults, timers, pollingInterval)
    /\ UNCHANGED <<mounted, modernizationResults, isProcessing, error, ticks,
                   uploads, serverVars, statusFetches, resultFetches,
                   resultDelivered, transportFailed>>

\* Dashboard handleFileUpload up to its await of the submission call,
\* including the parent's handleFileUpload (onFileUpload).
UploadStart ==
    /\ UNCHANGED parserVars
    /\ Event
    /\ mounted
    /\ modernizationResults = NoModel      \* the upload zone is rendered
    /\ error' = NoError
    /\ isProcessing' = TRUE
    /\ modernizationResults' = NoModel
    /\ uploads' = Append(uploads, "pending")
    /\ RerunEffect(jobId, NoModel, timers, pollingInterval)
    /\ UNCHANGED <<mounted, jobId, ticks, serverVars, statusFetches,
                   resultFetches, resultDelivered, transportFailed>>

\* Dashboard handleFileUpload from the submission call's outcome to its end,
\* including the parent's handleProcessResults (onProcessFile).
UploadReturn(u, outcome) ==
    /\ UNCHANGED parserVars
    /\ UNCHANGED events
    /\ uploads[u] = "pending"
    /\ IF UploadThrows(outcome)
       THEN /\ error' = SetState(error, UploadFailed(UploadErrorMessage(outcome)))
            /\ uploads' = [uploads EXCEPT ![u] = "failed"]
            /\ UNCHANGED <<modernizationResults, isProcessing, timers,
                           effectInterval, pollingInterval, nextTimer,
                           cancelled>>
       ELSE /\ uploads' = [uploads EXCEPT ![u] = "ok"]
            /\ error' = error
            /\ IF mounted
               THEN /\ modernizationResults' = UploadModel(u)
                    /\ isProcessing' = FALSE
                    /\ RerunEffect(jobId, UploadModel(u), timers, pollingInterval)
               ELSE UNCHANGED <<modernizationResults, isProcessing, timers,
                                effectInterval, pollingInterval, nextTimer,
                                cancelled>>
    /\ UNCHANGED <<mounted, jobId, ticks, serverVars, statusFetches,
                   resultFetches, resultDelivered, transportFailed>>

\* Parent loadSampleData.
LoadSampleData ==
    /\ UNCHANGED parserVars
    /\ Event
    /\ mounted
    /\ modernizationResults' = SampleModel
    /\ RerunEffect(jobId, SampleModel, timers, pollingInterval)
    /\ UNCHANGED <<mounted, isProcessing, jobId, error, ticks, uploads,
                   serverVars, statusFetches, resultFetches,
                   resultDelivered, transportFailed>>

\* The Dismiss button of the error panel: setError(null).
DismissError ==
    /\ UNCHANGED parserVars
    /\ Event
    /\ mounted
    /\ error # NoError
    /\ error' = NoError
    /\ UNCHANGED <<mounted, modernizationResults, isProcessing, jobId,
                   pollingInterval, timers, effectInterval, nextTimer, ticks,
                   uploads, serverVars, historyVars>>

\* A live interval fires: the callback runs up to its first await, the
\* status fetch.
TimerFire(tm) ==
    /\ UNCHANGED parserVars
    /\ Event
    /\ tm \in timers
    /\ ticks' = ticks (+) SetToBag({Tick(tm.id, tm.job, "status")})
    /\ statusFetches' = [statusFetches EXCEPT ![tm.job] = @ + 1]
    /\ UNCHANGED <<mounted, modernizationResults, isProcessing, jobId,
                   pollingInterval, error, timers, effectInterval, nextTimer,
                   uploads, serverVars, resultFetches,
                   resultDelivered, transportFailed, cancelled>>

\* The statuses a job's later responses can carry once it has reported
\* `last`: queued -> running -> completed | failed.
LaterStatuses(last) ==
    CASE last = "queued"  -> {"queued", "running", "completed", "failed"}
      [] last = "running" -> {"running", "completed", "failed"}
      [] OTHER            -> {last}

\* The status fetch of callback tk returns {status: s, error: err} (ok) or
\* throws (~ok): the callback runs to its next await (the result fetch) or to
\* its end.
StatusReturn(tk, ok, s, err) ==
    /\ UNCHANGED parserVars
    /\ UNCHANGED events
    /\ BagIn(tk, ticks)
    /\ tk.pc = "status"
    /\ LET j == tk.job
           b == StatusBranch(s)
           rest == ticks (-) SetToBag({tk})
       IN  IF ~ok
           THEN /\ s = jobStatus[j]
                /\ err = jobError[j]
                /\ error' = SetState(error, ConnectionError)
                /\ transportFailed' = [transportFailed EXCEPT ![j] = TRUE]
                /\ ticks' = rest
                /\ UNCHANGED <<timers, pollingInterval, resultFetches,
                               serverVars>>
           ELSE /\ s \in LaterStatuses(jobStatus[j])
                /\ IF jobStatus[j] = "failed" \/ s # "failed"
                   THEN err = jobError[j] ELSE TRUE
                /\ jobStatus' = [jobStatus EXCEPT ![j] = s]
                /\ jobError' = [jobError EXCEPT ![j] = err]
                /\ UNCHANGED transportFailed
                /\ CASE b = "completed" ->
                          /\ resultFetches' = [resultFetches EXCEPT ![j] = @ + 1]
                          /\ ticks' = rest (+) SetToBag({Tick(tk.interval, j, "result")})
                          /\ UNCHANGED <<error, timers, pollingInterval>>
                     [] b = "failed" ->
                          /\ error' = SetState(error, FailureMessage(err))
                          /\ timers' = ClearInterval(timers, tk.interval)
                          /\ pollingInterval' = SetState(pollingInterval, NoTimer)
                          /\ ticks' = rest
                          /\ UNCHANGED resultFetches
                     [] OTHER ->
                          /\ ticks' = rest
                          /\ UNCHANGED <<error, timers, pollingInterval,
                                         resultFetches>>
    /\ UNCHANGED <<mounted, modernizationResults, isProcessing, jobId,
                   effectInterval, nextTimer, uploads,
                   statusFetches, resultDelivered, cancelled>>

\* The result fetch of callback tk returns (ok) or throws (~ok): the callback
\* runs to its end, including the parent's handleProcessResults
\* (onProcessFile).
ResultReturn(tk, ok) ==
    /\ UNCHANGED parserVars
    /\ UNCHANGED events
    /\ BagIn(tk, ticks)
    /\ tk.pc = "result"
    /\ ticks' = ticks (-) SetToBag({tk})
    /\ LET j == tk.job
       IN  IF ~ok
           THEN /\ error' = SetState(error, ConnectionError)
                /\ transportFailed' = [transportFailed EXCEPT ![j] = TRUE]
                /\ UNCHANGED <<modernizationResults, isProcessing, timers,
                               effectInterval, pollingInterval, nextTimer,
                               cancelled, resultDelivered>>
           ELSE /\ resultDelivered' = [resultDelivered EXCEPT ![j] = TRUE]
                /\ UNCHANGED transportFailed
                /\ IF mounted
                   THEN /\ modernizationResults' = PollModel(j)
                        /\ isProcessing' = FALSE
                        /\ error' = NoError
                        /\ RerunEffect(jobId, PollModel(j),
                                       ClearInterval(timers, tk.interval),
                                       NoTimer)
                   ELSE /\ timers' = ClearInterval(timers, tk.interval)
                        /\ UNCHANGED <<modernizationResults, isProcessing,
                                       error, effectInterval, pollingInterval,
                                       nextTimer, cancelled>>
    /\ UNCHANGED <<mounted, jobId, uploads, serverVars, statusFetches,
                   resultFetches>>

\* The dashboard is unmounted: the effect's cleanup runs.
Unmount ==
    /\ UNCHANGED parserVars
    /\ Event
    /\ mounted
    /\ mounted' = FALSE
    /\ timers' = IF effectInterval # NoTimer
                 THEN EffectCleanup(timers, effectInterval) ELSE timers
    /\ cancelled' = IF effectInterval # NoTimer
                    THEN cancelled \cup {effectInterval} ELSE cancelled
    /\ effectInterval' = NoTimer
    /\ UNCHANGED <<modernizationResults, isProcessing, jobId, pollingInterval,
                   error, nextTimer, ticks, uploads, serverVars, statusFetches,
                   resultFetches, resultDelivered, transportFailed>>

Next ==
    \/ \E j \in Jobs : SetJobId(j)
    \/ UploadStart
    \/ \E u \in DOMAIN uploads, o \in UploadOutcomes : UploadReturn(u, o)
    \/ LoadSampleData
    \/ DismissError
    \/ \E tm \in timers : TimerFire(tm)
    \/ \E tk \in BagToSet(ticks), ok \in BOOLEAN, s \in Statuses,
          err \in ServerErrors : StatusReturn(tk, ok, s, err)
    \/ \E tk \in BagToSet(ticks), ok \in BOOLEAN : ResultReturn(tk, ok)
    \/ Unmount

Spec == Init /\ [][Next]_vars

\* ------------------------------------------------- an undisturbed polling run
\* One job identifier is recorded and never replaced, nobody uploads, loads
\* the sample or unmounts the dashboard, and every status and result call
\* succeeds.  The browser fires a live interval again and again, and every
\* pending call returns.
LiveNext ==
    \/ \E j \in Jobs : jobId = NoJob /\ SetJobId(j)
    \/ \E tm \in timers : TimerFire(tm)
    \/ \E tk \in BagToSet(ticks), s \in Statuses, err \in ServerErrors :
          StatusReturn(tk, TRUE, s, err)
    \/ \E tk \in BagToSet(ticks) : ResultReturn(tk, TRUE)

LiveSpec ==
    /\ Init
    /\ [][LiveNext]_vars
    /\ WF_vars(\E tm \in timers : TimerFire(tm))
    /\ WF_vars(\E tk \in BagToSet(ticks), s \in Statuses, err \in ServerErrors :
                  StatusReturn(tk, TRUE, s, err))
    /\ WF_vars(\E tk \in BagToSet(ticks) : ResultReturn(tk, TRUE))

\* ------------------------------------------------------------ the API view
\* const endpoints = apiData?.endpoints || [], where apiData is the model's
\* apiDesign.
endpointsOf(model) ==
    IF "apiDesign" \in DOMAIN model THEN model.apiDesign.endpoints ELSE <<>>

\* The operation object of an endpoint (summary and parameters; the responses
\* object is the same for every endpoint).
operationOf(endpoint) ==
    [summary    |-> endpoint.description,
     parameters |-> [i \in DOMAIN endpoint.parameters |->
                        [name |-> endpoint.parameters[i], in |-> "query",
                         required |-> FALSE]]]

\* One step of the reduce: paths[endpoint.path] = {[method]: operation}.
pathsWith(paths, endpoint) ==
    LET method == toLowerCase(endpoint.method)
    IN  [q \in DOMAIN paths \cup {endpoint.path} |->
            IF q = endpoint.path
            THEN [m \in {method} |-> operationOf(endpoint)]
            ELSE paths[q]]

\* endpoints.reduce((paths, endpoint) => {...; return paths}, {})
RECURSIVE reducePaths(_, _)
reducePaths(endpoints, paths) ==
    IF endpoints = <<>> THEN paths
    ELSE reducePaths(Tail(endpoints), pathsWith(paths, Head(endpoints)))

openAPIPaths(endpoints) == reducePaths(endpoints, [q \in {} |-> 0])

\* ------------------------------------------------ every pending call returns
\* The user and the browser's timer are free to act or not; a call that has
\* been issued is answered or fails after a while.
CallsReturn ==
    /\ WF_vars(\E u \in DOMAIN uploads, o \in UploadOutcomes : UploadReturn(u, o))
    /\ WF_vars(\E tk \in BagToSet(ticks), ok \in BOOLEAN, s \in Statuses,
                  err \in ServerErrors : StatusReturn(tk, ok, s, err))
    /\ WF_vars(\E tk \in BagToSet(ticks), ok \in BOOLEAN : ResultReturn(tk, ok))

FairSpec == Spec /\ CallsReturn

\* ============================================================ payload texts
\* The texts the generator side produces, by shape.
Styles  == {"upper", "lower"}     \* spelling of keywords and method names
Layouts == {"line", "block"}      \* a statement on one line, or one item per line

Kw(style, word) == IF style = "lower" THEN toLowerCase(word) ELSE toUpperCase(word)

RECURSIVE Join(_, _)
Join(items, sep) ==
    IF items = <<>> THEN ""
    ELSE IF Len(items) = 1 THEN items[1]
    ELSE items[1] \o sep \o Join(Tail(items), sep)

\* CREATE TABLE <name> ( <items> );
CreateTable(style, layout, name, items) ==
    Kw(style, "CREATE TABLE") \o " " \o name \o " ("
        \o (IF layout = "block" THEN "\n  " ELSE "")
        \o Join(items, IF layout = "block" THEN ",\n  " ELSE ", ")
        \o (IF layout = "block" THEN "\n" ELSE "")
        \o ");"

\* Texts of the shape CREATE TABLE t (a INT PRIMARY KEY, b VARCHAR(10) NOT NULL);
TwoColumnShapes ==
    [style : Styles, layout : Layouts, name : {"t", "orders"},
     cols : {<<"a", "b">>, <<"id", "customer_name">>},
     types : {<<"INT", "VARCHAR(10)">>, <<"VARCHAR(10)", "INT">>}]

TwoColumnDdl(p) ==
    CreateTable(p.style, p.layout, p.name,
        << p.cols[1] \o " " \o Kw(p.style, p.types[1]) \o " " \o Kw(p.style, "PRIMARY KEY"),
           p.cols[2] \o " " \o Kw(p.style, p.types[2]) \o " " \o Kw(p.style, "NOT NULL") >>)

\* Tables whose body ends with one FOREIGN KEY clause after n column
\* declarations.
ForeignKeyClause == "FOREIGN KEY (customer_id) REFERENCES customers(customer_id)"

ColumnName(k) == "c" \o Char(Digits, k + 1)
ColumnDecl(k) ==
    ColumnName(k) \o " " \o (IF k % 2 = 1 THEN "INT" ELSE "VARCHAR(10) NOT NULL")

OrdersShapes == [layout : Layouts, n : 0..MaxColumns]

OrdersDdl(p) ==
    CreateTable("upper", p.layout, "orders",
                [k \in 1..p.n |-> ColumnDecl(k)] \o <<ForeignKeyClause>>)

\* Two blocks, the second referencing the first.
CustomersDdl == "CREATE TABLE customers (customer_id INT PRIMARY KEY);"
TwoTableDdl(p) == CustomersDdl \o "\n" \o OrdersDdl(p)

\* Table bodies by their comma-separated fragments.  A fragment is a column
\* declaration <name> INT followed by the flag words listed in flags, a
\* constraint line, a foreign-key line, a single token, a blank, or a column
\* whose name has the word constraint in it.
FlagWords == <<"PRIMARY KEY", "NOT NULL", "UNIQUE", "DEFAULT">>

ColumnShapes == [kind : {"column"}, name : {"qty"}, style : Styles,
                 flags : SUBSET DOMAIN FlagWords]

OtherShapes ==
    {[kind |-> k, name |-> "", style |-> "upper", flags |-> {}] :
        k \in {"constraint", "foreign", "single", "blank", "constraint_id"}}

FragmentShapes == ColumnShapes \cup OtherShapes

RECURSIVE FlagText(_, _, _)
FlagText(style, flags, n) ==
    IF n > Len(FlagWords) THEN ""
    ELSE (IF n \in flags
          THEN " " \o Kw(style, FlagWords[n]) \o (IF FlagWords[n] = "DEFAULT" THEN " 0" ELSE "")
          ELSE "")
         \o FlagText(style, flags, n + 1)

FragmentText(f) ==
    CASE f.kind = "column"        -> f.name \o " " \o Kw(f.style, "INT") \o FlagText(f.style, f.flags, 1)
      [] f.kind = "constraint"    -> "CONSTRAINT pk PRIMARY KEY (id)"
      [] f.kind = "foreign"       -> "foreign key (a) references b(c)"
      [] f.kind = "single"        -> "lonely"
      [] f.kind = "blank"         -> "  "
      [] f.kind = "constraint_id" -> "constraint_id INT NOT NULL"

\* The fragments that bodies of several fragments are built from.
OrderShapes ==
    << [kind |-> "column", name |-> "a", style |-> "upper", flags |-> {1}],
       [kind |-> "column", name |-> "b", style |-> "lower", flags |-> {2, 3}],
       [kind |-> "constraint", name |-> "", style |-> "upper", flags |-> {}],
       [kind |-> "single", name |-> "", style |-> "upper", flags |-> {}] >>

\* One fragment of any shape, or up to MaxFragments different ones of
\* OrderShapes in any order.
FragmentOrders ==
    {o \in UNION {[1..n -> DOMAIN OrderShapes] : n \in 1..MaxFragments} :
        \A i, j \in DOMAIN o : o[i] = o[j] => i = j}

FragmentLists ==
    {<<f>> : f \in FragmentShapes}
        \cup {[k \in DOMAIN o |-> OrderShapes[o[k]]] : o \in FragmentOrders}

FragmentsDdl(list) ==
    CreateTable("upper", "line", "f", [k \in DOMAIN list |-> FragmentText(list[k])])

FragmentTexts == {[shape |-> l, text |-> FragmentsDdl(l)] : l \in FragmentLists}

\* The table customers declared twice, and orders, which references it, as
\* the at-th block.
DuplicateShapes == [at : 1..3]

FirstCustomersDdl  == CustomersDdl
SecondCustomersDdl == "CREATE TABLE customers (customer_id INT PRIMARY KEY, name VARCHAR(10));"

DuplicateBlocks(p) ==
    LET orders == OrdersDdl([layout |-> "line", n |-> 1])
    IN  CASE p.at = 1 -> <<orders, FirstCustomersDdl, SecondCustomersDdl>>
          [] p.at = 2 -> <<FirstCustomersDdl, orders, SecondCustomersDdl>>
          [] p.at = 3 -> <<FirstCustomersDdl, SecondCustomersDdl, orders>>

DuplicateDdl(p) == Join(DuplicateBlocks(p), "\n")

DuplicateTexts == {[shape |-> p, text |-> DuplicateDdl(p)] : p \in DuplicateShapes}

NoTableTexts == {"", "-- no tables"}

\* The texts, each with its shape.
TwoColumnTexts == {[shape |-> p, text |-> TwoColumnDdl(p)] : p \in TwoColumnShapes}
OrdersTexts    == {[shape |-> p, text |-> OrdersDdl(p)] : p \in OrdersShapes}
TwoTableTexts  == {[shape |-> p, text |-> TwoTableDdl(p)] : p \in OrdersShapes}

TextsOf(S) == {x.text : x \in S}

DdlTexts ==
    TextsOf(TwoColumnTexts) \cup TextsOf(OrdersTexts) \cup TextsOf(TwoTableTexts)
        \cup TextsOf(FragmentTexts) \cup TextsOf(DuplicateTexts) \cup NoTableTexts

\* Route calls <receiver>.<method>(<quote><path><quote>, handler);
Receivers   == {"app", "router"}
HttpMethods == {"get", "post", "put", "delete", "patch"}
Targets     == {[path |-> "/users", quote |-> "'"],
                [path |-> "/users/:id", quote |-> "\""]}

CallShapes == [recv : Receivers, method : HttpMethods, style : Styles, target : Targets]

CallText(c) ==
    c.recv \o "." \o Kw(c.style, c.method) \o "(" \o c.target.quote
        \o c.target.path \o c.target.quote \o ", handler);"

\* Route texts of up to MaxCalls lines, each a call the route pattern is
\* written for (receiver app, the pattern's four methods) or a line that is
\* no route call.
ListenLine == "app.listen(3000);"

RouteLines ==
    << [recv |-> "app", method |-> "get",    style |-> "lower", target |-> [path |-> "/users", quote |-> "'"]],
       [recv |-> "app", method |-> "post",   style |-> "lower", target |-> [path |-> "/users", quote |-> "\""]],
       [recv |-> "app", method |-> "put",    style |-> "upper", target |-> [path |-> "/users/:id", quote |-> "'"]],
       [recv |-> "app", method |-> "delete", style |-> "lower", target |-> [path |-> "/users/:id", quote |-> "\""]] >>

\* A route text is listed by the indices of its lines; 0 is ListenLine.
LineChoices == 0..Len(RouteLines)
RouteLists  == UNION {[1..n -> LineChoices] : n \in 1..MaxCalls}

LineText(x) == IF x = 0 THEN ListenLine ELSE CallText(RouteLines[x])

RouteText(list) == Join([k \in DOMAIN list |-> LineText(list[k])], "\n")

NoCallTexts == {"", "// no routes", "const x = 1;", ListenLine}

\* The texts, each with its shape.
CallTexts    == {[shape |-> c, text |-> CallText(c)] : c \in CallShapes}
RouteListing == {[shape |-> l, text |-> RouteText(l)] : l \in RouteLists}

RouteTexts == TextsOf(CallTexts) \cup TextsOf(RouteListing) \cup NoCallTexts

\* The payloads of a run: one text varies while the other is a fixed one.
BaseDdl   == "CREATE TABLE t (a INT PRIMARY KEY, b VARCHAR(10) NOT NULL);"
BaseRoute == "app.get('/users', handler);"

Payloads ==
    (DdlTexts \X {BaseRoute}) \cup ({BaseDdl} \X RouteTexts) \cup {<<"", "">>}

\* ======================================================= the text pipeline
\* A payload arrives; the schema view and the two delivery paths work on it.
ParseInit ==
    /\ ClientInit
    /\ \E p \in Payloads : dbSchema = p[1] /\ restApi = p[2]
    /\ extracted = <<>>
    /\ drawnLines = {}
    /\ handedOver = <<>>
    /\ openApi = <<>>

Via(path) == {k \in DOMAIN handedOver : handedOver[k].via = path}

\* DatabaseSchemaVisualization rendered with the payload's DDL text as
\* sqlData: extractTables(), and the relationship lines drawn between the
\* tables.
ExtractTables ==
    /\ extracted = <<>>
    /\ extracted' = <<extractTables(dbSchema)>>
    /\ drawnLines' = relationshipLines(extracted'[1])
    /\ UNCHANGED <<clientVars, dbSchema, restApi, handedOver, openApi>>

\* handleFileUpload from the parsed response on: transformedData is built
\* and handed to onProcessFile.
HandleUploadResponse ==
    /\ Via("submission") = {}
    /\ handedOver' = Append(handedOver,
            [via |-> "submission",
             model |-> transformedData(SubmissionResponse(dbSchema, restApi))])
    /\ UNCHANGED <<clientVars, dbSchema, restApi, extracted, drawnLines, openApi>>

\* The interval callback's completed branch from the parsed result response
\* on: onProcessFile(result.result).
HandleResultResponse ==
    /\ Via("poll") = {}
    /\ handedOver' = Append(handedOver,
            [via |-> "poll", model |-> ResultPayload(dbSchema, restApi)])
    /\ UNCHANGED <<clientVars, dbSchema, restApi, extracted, drawnLines, openApi>>

\* RestAPIVisualization rendered in its openapi mode with the apiDesign of
\* the model handed over last: the document's paths are built from the
\* endpoints.
OpenAPIView ==
    /\ handedOver # <<>>
    /\ openApi = <<>>
    /\ LET endpoints == endpointsOf(handedOver[Len(handedOver)].model)
       IN  openApi' = <<[endpoints |-> endpoints, paths |-> openAPIPaths(endpoints)]>>
    /\ UNCHANGED <<clientVars, dbSchema, restApi, extracted, drawnLines, handedOver>>

ParseNext ==
    \/ ExtractTables
    \/ HandleUploadResponse
    \/ HandleResultResponse
    \/ OpenAPIView

ParseSpec == ParseInit /\ [][ParseNext]_vars


\* ================================================================== claims

\* Callbacks of job j still awaiting a response.
Pending(tks, j) == InFlight(tks, j, "status") + InFlight(tks, j, "result")

\* C1: for every job the client issues at most one result fetch
\* (GET /result/<job>), whatever the interleaving of interval firings and
\* responses.
C1_SingleResultFetch ==
    \A j \in Jobs : resultFetches[j] <= 1

\* C2: once a status response has reported completed or failed for a job, no
\* further status fetch is issued for that job.
C2_NoStatusFetchAfterTerminal ==
    [][\A j \in Jobs :
          jobStatus[j] \in {"completed", "failed"}
              => statusFetches'[j] = statusFetches[j]]_vars

\* C3: a result fetch of a job has been issued, or is in flight, only if a
\* status response has reported completed for that job; none is issued while
\* only queued, running or failed have been reported.
C3_ResultFetchOnlyAfterCompleted ==
    \A j \in Jobs :
        (resultFetches[j] > 0 \/ InFlight(ticks, j, "result") > 0)
            => jobStatus[j] = "completed"

C3_Witness ==
    \E j \in Jobs : resultFetches[j] > 0 /\ InFlight(ticks, j, "result") > 0

\* C4: when a network call of the polling loop throws, the client shows the
\* connection-error message, and from then on no further status fetch is
\* issued for that job.
C4_TransportFailureStopsPolling ==
    [][\A j \in Jobs :
          /\ (~transportFailed[j] /\ transportFailed'[j] /\ mounted)
                 => error' = ConnectionError
          /\ transportFailed[j] => statusFetches'[j] = statusFetches[j]]_vars

\* C5: when a job has been reported failed and every callback of that job has
\* returned, the error message left by the polling loop is the status
\* response's error field, or the generic message when the field is absent.
PollingMessages == {ConnectionError, GenericFailure} \cup (ServerErrors \ {NoError})

C5_FailedMessageIsServerError ==
    \A j \in Jobs :
        ( /\ jobStatus[j] = "failed"
          /\ Pending(ticks, j) = 0
          /\ \A k \in Jobs \ {j} : statusFetches[k] = 0
          /\ error \in PollingMessages )
            => error = FailureMessage(jobError[j])

\* C6: once the client has acted on failed, or handed over the result of a
\* completed job, no later return of a callback of that job changes the error
\* message or the delivered model.
TerminalFor(j) == jobStatus[j] = "failed" \/ resultDelivered[j]

C6_TerminalOutcomeIsFinal ==
    [][\A j \in Jobs :
          (TerminalFor(j) /\ Pending(ticks', j) < Pending(ticks, j))
              => /\ error' = error
                 /\ modernizationResults' = modernizationResults]_vars

\* C7: an interval whose effect cleanup has run (unmount, or a change of jobId,
\* of the result or of the callback) is not live any more, so it fires no
\* further tick.
C7_CancelledIntervalIsDead ==
    \A tm \in timers : tm.id \notin cancelled

C7_Witness ==
    /\ \E tk \in BagToSet(ticks) : tk.interval \in cancelled
    /\ \E tm \in timers : TRUE

\* C8: at most one polling interval is live at any time.
C8_AtMostOneLiveInterval ==
    Cardinality(timers) <= 1

C8_Witness ==
    /\ Cardinality(cancelled) >= 2
    /\ timers # {}
    /\ \E j \in Jobs : jobStatus[j] = "failed"

\* C9: once every submission has been answered and the latest one succeeded,
\* the visible model assembled from a submission is the latest submission's.
C9_LatestSubmissionWins ==
    ( /\ Len(uploads) >= 2
      /\ \A u \in DOMAIN uploads : uploads[u] # "pending"
      /\ uploads[Len(uploads)] = "ok"
      /\ modernizationResults.via = "upload" )
        => modernizationResults.of = Len(uploads)

\* C10: when the submission call fails (it throws, the HTTP status is not OK,
\* or success is false), the error message is set to 'Upload failed: ...', and
\* the step records no job identifier, starts no interval or callback, and
\* delivers no model.
UploadFailures == UploadOutcomes \ {"ok"}

C10_FailedSubmissionOnlySetsError ==
    [][\A u \in DOMAIN uploads, o \in UploadFailures :
          UploadReturn(u, o)
              => /\ mounted => error' = UploadFailed(UploadErrorMessage(o))
                 /\ uploads'[u] = "failed"
                 /\ jobId' = jobId
                 /\ timers' = timers
                 /\ ticks' = ticks
                 /\ modernizationResults' = modernizationResults]_vars

C10_Witness ==
    /\ \E u \in DOMAIN uploads : uploads[u] = "failed"
    /\ error = UploadFailed("Modernization failed")
    /\ modernizationResults = NoModel
    /\ jobId = NoJob

\* C11: after a submission whose response was received successfully, the
\* client holds a job identifier (it has left the idle state), so that polling
\* for that job starts.
C11_SuccessfulSubmissionHoldsJobId ==
    [][\A u \in DOMAIN uploads :
          (uploads[u] = "pending" /\ uploads'[u] = "ok") => jobId' # NoJob]_vars

\* C12: every model handed to the caller for a payload, by the polling path as
\* by the synchronous path, is the model assembled from that payload by the
\* schema parser, the endpoint extractor and the assembler; so both paths
\* deliver the same model for the same payload.
C12_BothPathsDeliverAssembledModel ==
    \A k \in DOMAIN handedOver :
        handedOver[k].model = transformedData(SubmissionResponse(dbSchema, restApi))

\* C13: in an undisturbed polling run, a held job identifier leads to a status
\* fetch, and once the status endpoint has reported completed for a job the
\* client eventually hands the job's result to the caller and polling for
\* the job stops: no interval of the job stays live and none of its
\* callbacks stays in flight.
C13_CompletedJobIsDelivered ==
    \A j \in Jobs :
        /\ (jobId = j) ~> (statusFetches[j] > 0)
        /\ (jobStatus[j] = "completed")
              ~> ( /\ resultDelivered[j]
                   /\ \A tm \in timers : tm.job # j
                   /\ Pending(ticks, j) = 0 )

C13_Witness ==
    \E j \in Jobs :
        /\ jobStatus[j] = "completed"
        /\ resultDelivered[j]
        /\ modernizationResults = PollModel(j)
        /\ statusFetches[j] >= 2
        /\ timers = {}
        /\ ticks = EmptyBag

\* C14: for CREATE TABLE t (a INT PRIMARY KEY, b VARCHAR(10) NOT NULL); and
\* every text of that shape (other names and types, keywords in either case,
\* one line or one column per line), the schema view's parser and the
\* upload handler's parser both yield exactly one table of that name with the
\* two columns in order, the first isPrimary and the second isNotNull.
IsTwoColumnTable(ts, p) ==
    /\ Len(ts) = 1
    /\ ts[1].name = p.name
    /\ Len(ts[1].columns) = 2
    /\ ts[1].columns[1].name = p.cols[1]
    /\ ts[1].columns[1].type = Kw(p.style, p.types[1])
    /\ ts[1].columns[1].isPrimary
    /\ ts[1].columns[2].name = p.cols[2]
    /\ ts[1].columns[2].type = Kw(p.style, p.types[2])
    /\ ts[1].columns[2].isNotNull

C14_TwoColumnTableParsed ==
    \A x \in TwoColumnTexts :
        dbSchema = x.text
            => /\ \A k \in DOMAIN extracted : IsTwoColumnTable(extracted[k], x.shape)
               /\ \A k \in Via("submission") :
                      IsTwoColumnTable(handedOver[k].model.schema.tables, x.shape)

C14_Witness ==
    /\ dbSchema = BaseDdl
    /\ extracted # <<>>
    /\ Len(extracted[1]) = 1
    /\ extracted[1][1].columns[1].isPrimary
    /\ Via("submission") # {}

\* C16: for a table whose body ends with the one clause
\* FOREIGN KEY (customer_id) REFERENCES customers(customer_id), after any
\* number of column declarations, the schema view's parser yields a table
\* whose relationships are exactly the one entry customer_id -> customers
\* (customer_id).
CustomerReference ==
    [fromColumn |-> "customer_id", toTable |-> "customers", toColumn |-> "customer_id"]

C16_ForeignKeyClauseYieldsOneRelationship ==
    \A x \in OrdersTexts :
        dbSchema = x.text
            => \A k \in DOMAIN extracted :
                  /\ Len(extracted[k]) = 1
                  /\ extracted[k][1].relationships = <<CustomerReference>>

C16_Witness ==
    /\ dbSchema = OrdersDdl([layout |-> "block", n |-> MaxColumns])
    /\ extracted # <<>>
    /\ Len(extracted[1][1].columns) = MaxColumns
    /\ extracted[1][1].relationships = <<CustomerReference>>

\* C17: for a text of two CREATE TABLE blocks whose second block references
\* the first by a FOREIGN KEY clause, the schema of the model assembled from
\* the payload has exactly two tables, and its second table has a
\* relationship whose toTable is the first table's name.
C17_AssembledSchemaKeepsReference ==
    \A x \in TwoTableTexts :
        dbSchema = x.text
            => \A k \in Via("submission") :
                  LET ts == handedOver[k].model.schema.tables
                  IN  /\ Len(ts) = 2
                      /\ \E r \in DOMAIN ts[2].relationships :
                             ts[2].relationships[r].toTable = ts[1].name

\* C18: for the empty route text, and for any route text without a
\* recognized call, the endpoints of the assembled model are exactly the
\* three fallback endpoints GET /api/data, GET /api/data/:id, POST /api/data:
\* never the empty list.
FallbackRoutes ==
    << <<"GET", "/api/data">>, <<"GET", "/api/data/:id">>, <<"POST", "/api/data">> >>

MethodsAndPaths(endpoints) ==
    [k \in DOMAIN endpoints |-> <<endpoints[k].method, endpoints[k].path>>]

C18_NoCallYieldsFallback ==
    \A t \in NoCallTexts :
        restApi = t
            => \A k \in Via("submission") :
                  MethodsAndPaths(handedOver[k].model.apiDesign.endpoints) = FallbackRoutes

\* C19: a route text that is one call <receiver>.<method>("<path>", ...), for
\* any receiver and every method of get, post, put, delete and patch in
\* either case, yields the endpoint of that call.
C19_EveryReceiverAndMethodRecognized ==
    \A x \in CallTexts :
        restApi = x.text
            => \A k \in Via("submission") :
                  MethodsAndPaths(handedOver[k].model.apiDesign.endpoints)
                      = << <<toUpperCase(x.shape.method), x.shape.target.path>> >>

\* C20: for a route text with at least one recognized call, the endpoints
\* are exactly one per call, in the order of the text: method in upper case,
\* path as written, description '<METHOD> endpoint for <path>', no
\* parameters, response 'JSON response'.
ExpectedEndpoint(c) ==
    [method      |-> toUpperCase(c.method),
     path        |-> c.target.path,
     description |-> toUpperCase(c.method) \o " endpoint for " \o c.target.path,
     parameters  |-> <<>>,
     response    |-> "JSON response"]

RECURSIVE ExpectedEndpoints(_)
ExpectedEndpoints(list) ==
    IF list = <<>> THEN <<>>
    ELSE (IF Head(list) = 0 THEN <<>> ELSE <<ExpectedEndpoint(RouteLines[Head(list)])>>)
         \o ExpectedEndpoints(Tail(list))

C20_OneEndpointPerCallInOrder ==
    \A x \in RouteListing :
        (restApi = x.text /\ \E n \in DOMAIN x.shape : x.shape[n] # 0)
            => \A k \in Via("submission") :
                  handedOver[k].model.apiDesign.endpoints = ExpectedEndpoints(x.shape)

C20_Witness ==
    /\ \E x \in RouteListing :
          /\ Len(x.shape) = MaxCalls
          /\ x.shape[1] = 3
          /\ \A n \in DOMAIN x.shape : x.shape[n] # 0
          /\ restApi = x.text
    /\ \E k \in Via("submission") :
          Len(handedOver[k].model.apiDesign.endpoints) = MaxCalls

\* C21: the model assembled from a payload that lacks one of the two texts:
\* without the SQL text its schema has no tables, and without the route text
\* its endpoints are the three fallback endpoints.
C21_MissingTextsTolerated ==
    \A k \in Via("submission") :
        /\ dbSchema = "" => handedOver[k].model.schema.tables = <<>>
        /\ restApi = ""
              => MethodsAndPaths(handedOver[k].model.apiDesign.endpoints) = FallbackRoutes

\* C22: in the schema view's column step, a comma-separated fragment of a
\* table body yields exactly one column if it contains neither CONSTRAINT nor
\* FOREIGN KEY (in any case, anywhere in it) and has at least two
\* white-space-separated tokens, and no column otherwise; name and type are
\* its first two tokens; isPrimary, isNotNull, isUnique and hasDefault are,
\* each on its own, whether PRIMARY KEY, NOT NULL, UNIQUE and DEFAULT occur in
\* it in any case; the columns keep the order of the fragments.
ExpectedColumn(f) ==
    IF f.kind = "column"
    THEN <<[name       |-> f.name,
            type       |-> Kw(f.style, "INT"),
            isPrimary  |-> 1 \in f.flags,
            isNotNull  |-> 2 \in f.flags,
            isUnique   |-> 3 \in f.flags,
            hasDefault |-> 4 \in f.flags]>>
    ELSE <<>>

RECURSIVE ExpectedColumns(_)
ExpectedColumns(list) ==
    IF list = <<>> THEN <<>>
    ELSE ExpectedColumn(Head(list)) \o ExpectedColumns(Tail(list))

LastNamed(ts, name) ==
    CHOOSE k \in DOMAIN ts :
        /\ ts[k].name = name
        /\ \A m \in DOMAIN ts : ts[m].name = name => m <= k

C23_DuplicatesKeptLastWins ==
    \A x \in DuplicateTexts :
        dbSchema = x.text
            => \A k \in DOMAIN extracted :
                  LET ts == extracted[k]
                  IN  /\ Len(ts) = 3
                      /\ ts[x.shape.at].name = "orders"
                      /\ \A m \in DOMAIN ts \ {x.shape.at} : ts[m].name = "customers"
                      /\ drawnLines = {[from |-> x.shape.at, rel |-> 1,
                                        to   |-> LastNamed(ts, "customers")]}

\* C24: in an undisturbed polling run, while the responses of the held job
\* are queued or running the client does not stop polling: a live interval
\* is cleared only once the job has reported completed or failed, and as long
\* as the browser can fire an interval, one more status fetch of the job is
\* always issued, however many have been issued before.
Terminal(j) == jobStatus[j] \in {"completed", "failed"}

C24_PollsUntilTerminal ==
    /\ [][\A tm \in timers : tm \notin timers' => Terminal(tm.job)']_vars
    /\ \A j \in Jobs, n \in 0..(MaxEvents + 1) :
          (jobId = j /\ statusFetches[j] = n /\ events < MaxEvents)
              ~> (statusFetches[j] > n \/ Terminal(j))

C24_Witness ==
    \E j \in Jobs :
        /\ jobId = j
        /\ jobStatus[j] = "running"
        /\ statusFetches[j] = MaxEvents - 1
        /\ ticks = EmptyBag
        /\ \E tm \in timers : tm.job = j

\* C25: at most one status fetch of a job is in flight, and no callback of
\* an interval is suspended at its status fetch while another callback of
\* the same interval is still suspended at its status or result fetch.
InFlightOf(tks, interval) ==
    LET RECURSIVE Sum(_)
        Sum(S) == IF S = {} THEN 0
                  ELSE LET tk == CHOOSE x \in S : TRUE
                       IN  CopiesIn(tk, tks) + Sum(S \ {tk})
    IN  Sum({tk \in BagToSet(tks) : tk.interval = interval})

C25_OneFetchInFlight ==
    /\ \A j \in Jobs : InFlight(ticks, j, "status") <= 1
    /\ \A tk \in BagToSet(ticks) :
          tk.pc = "status" => InFlightOf(ticks, tk.interval) <= 1

\* C26: when the call of a callback returns whose interval the effect
\* cleanup has already cleared, the client's state stays as it is: no model
\* is delivered, no error is set, nothing else changes.
Returns(tk) == CopiesIn(tk, ticks') < CopiesIn(tk, ticks)

C26_CancelledTickChangesNothing ==
    [][\A tk \in BagToSet(ticks) :
          (tk.interval \in cancelled /\ Returns(tk))
              => UNCHANGED <<modernizationResults, isProcessing, error, jobId,
                             pollingInterval>>]_vars

\* C27: whenever isProcessing is true it becomes false again later, given
\* that every submission call returns, successfully or not.
C27_ProcessingEventuallyCleared ==
    isProcessing ~> ~isProcessing

\* C28: in every reachable state, a model being shown (modernizationResults
\* is not null) implies that isProcessing is false.
C28_ModelShownImpliesNotProcessing ==
    modernizationResults # NoModel => ~isProcessing

\* C29: for the same text, the tables the upload handler's parser puts into
\* the assembled model and the tables the schema view's parser extracts are
\* the same: same names in the same order, same column names, types,
\* isPrimary and isNotNull flags, same relationships.
ComparedColumn(c) ==
    [name |-> c.name, type |-> c.type,
     isPrimary |-> c.isPrimary, isNotNull |-> c.isNotNull]

ComparedTable(t) ==
    [name          |-> t.name,
     columns       |-> [i \in DOMAIN t.columns |-> ComparedColumn(t.columns[i])],
     relationships |-> t.relationships]

Compared(ts) == [i \in DOMAIN ts |-> ComparedTable(ts[i])]

C29_ParsersAgree ==
    \A k \in Via("submission"), e \in DOMAIN extracted :
        Compared(handedOver[k].model.schema.tables) = Compared(extracted[e])

\* C30: the paths of the document the API view builds hold one operation
\* for every endpoint shown: the endpoint's path is a key of paths, and the
\* endpoint's method, in lower case, is a key of that path's item carrying
\* the endpoint's description as summary.
C30_OneOperationPerEndpoint ==
    \A k \in DOMAIN openApi :
        LET endpoints == openApi[k].endpoints
            paths     == openApi[k].paths
        IN  \A i \in DOMAIN endpoints :
                LET e == endpoints[i]
                IN  /\ e.path \in DOMAIN paths
                    /\ toLowerCase(e.method) \in DOMAIN paths[e.path]
                    /\ paths[e.path][toLowerCase(e.method)].summary = e.description

====
